---- MODULE Spec2Model ----
(***************************************************************************)
(* Model of smart_home_controller.py: the sampling loop of main(), the     *)
(* SQLite-backed Database (sensor_readings, device_states), the MQTT       *)
(* publishing operations and the on_message handler.                       *)
(*                                                                         *)
(* Numbers: temperatures and humidities are integers in hundredths of a    *)
(* unit (28.0 degrees is 2800), so that round(x, 1) is a real conversion.  *)
(* Time: a timestamp taken with datetime.now() is the ordinal of the call  *)
(* that takes it (the n-th store_reading, the n-th update_device_state,    *)
(* the n-th sampling cycle), so later writes carry later timestamps.       *)
(* Python's None is the string "<None>"; a JSON value SQLite cannot bind   *)
(* (a nested object or list) is the string "<dict>".                       *)
(***************************************************************************)
EXTENDS Integers, Sequences, FiniteSets, TLC

\* ---------------------------------------------------------------- bounds
MaxCycles == 2
MaxMsgs == 2
MaxLimit == 3
MaxRows == 2
MaxUpdates == 2

\* ------------------------------------------------------------- constants
TEMP_THRESHOLD == 2800

Slash == "/"
TOPIC_TEMP == <<"home", Slash, "sensors", Slash, "temperature">>
TOPIC_LIGHTS == <<"home", Slash, "devices", Slash, "lights">>
TOPIC_THERMOSTAT == <<"home", Slash, "devices", Slash, "thermostat">>
TOPIC_LOCK == <<"home", Slash, "devices", Slash, "lock">>
TOPIC_ALERT == <<"home", Slash, "alerts", Slash, "temperature">>

None == "<None>"
Unbindable == "<dict>"

\* Values the sensor may return.  SmartHomeSensor is a stand-in for a
\* hardware sensor (its own draw is 22 + uniform(-2, 6), i.e. 20.00..28.00,
\* which never exceeds the threshold); the loop is modelled for any numeric
\* reading: one at the threshold and one above it.
Temps == {2800, 3023}
Hums == {5512}

\* -------------------------------------------------------------- helpers
Min(a, b) == IF a < b THEN a ELSE b

\* round(x, 1) on a value in hundredths; no value of the model is a tie.
Round1(x) == ((x + 5) \div 10) * 10

\* str.split('/') on a topic given as a token sequence: the segments between
\* the slashes, an empty segment being "".
RECURSIVE SplitFrom(_, _, _)
SplitFrom(t, cur, acc) ==
    IF t = <<>> THEN Append(acc, cur)
    ELSE IF Head(t) = Slash THEN SplitFrom(Tail(t), "", Append(acc, cur))
    ELSE SplitFrom(Tail(t), Head(t), acc)

Split(t) == SplitFrom(t, "", <<>>)

\* f"home/devices/{device_type}/{device_id}"
DeviceTopic(device_type, device_id) ==
    <<"home", Slash, "devices", Slash, device_type, Slash, device_id>>

VARIABLES
    pc,              \* position of main()
    stopReason,      \* why main() left the loop
    loopRunning,     \* the client's network loop (loop_start .. loop_stop)
    connected,       \* the client's connection to the broker (client.connect)
    openConns,       \* sqlite3 connections opened by a write and not closed
    subscribed,      \* on_connect has subscribed the device topics
    cycle,           \* number of the sampling cycle in progress
    temperature, humidity, alert_triggered,   \* locals of main()
    cycleLog,        \* the calls main() made in the cycle in progress
    sensor_readings, \* table sensor_readings, in rowid order
    readingSeq,      \* AUTOINCREMENT sequence of sensor_readings
    device_states,   \* table device_states, in rowid order
    deviceSeq,       \* AUTOINCREMENT sequence of device_states
    storeCalls,      \* number of store_reading calls made
    updateCalls,     \* number of update_device_state calls made
    inflight,        \* device commands published and not yet delivered back
    handled,         \* number of inbound messages handled
    lastMsg,         \* the inbound message handled last, and its outcome
    lastOwn,         \* the message handled last is a command control_device published
    lastCarried,     \* per device_id: state of the last well-formed message
    lastStored,      \* per device_id: state of the last successful upsert
    qres             \* the last call a client made on the Database, and its result

mainVars == <<pc, stopReason, cycle, temperature, humidity, alert_triggered, cycleLog>>
readVars == <<sensor_readings, readingSeq, storeCalls>>
devVars == <<device_states, deviceSeq, updateCalls>>
msgVars == <<handled, lastMsg, lastOwn, lastCarried, lastStored>>
vars == <<mainVars, loopRunning, connected, openConns, subscribed, inflight,
          readVars, devVars, msgVars, qres>>

LoopPcs == {"sample", "store", "publish", "alert", "control", "target", "sleep"}

\* ------------------------------------------------------------- Database
\* Mutant: the id is the sequence value as it stands, not the next one, so
\* the second row takes the id of the first.
StoreReadingRowsReuse(rows, seq, t, h, alert, ts) ==
    Append(rows, [id |-> IF seq = 0 THEN 1 ELSE seq, timestamp |-> ts, temperature |-> t,
                  humidity |-> h, alert_triggered |-> IF alert THEN 1 ELSE 0])

\* store_reading: the INSERT into sensor_readings.
StoreReadingRows(rows, seq, t, h, alert, ts) ==
    Append(rows, [id |-> seq + 1, timestamp |-> ts, temperature |-> t,
                  humidity |-> h, alert_triggered |-> IF alert THEN 1 ELSE 0])

HasDevice(rows, device_id) == \E i \in 1..Len(rows) : rows[i].device_id = device_id

\* Mutant: a conflicting row is left as it is (INSERT OR IGNORE).
UpdateDeviceStateIgnore(rows, seq, device_id, device_type, state, ts) ==
    IF HasDevice(rows, device_id)
    THEN rows
    ELSE Append(rows, [id |-> seq + 1, device_id |-> device_id,
                       device_type |-> device_type, state |-> state,
                       last_updated |-> ts])

\* Mutant: a plain INSERT, device_id not being a conflict target.
UpdateDeviceStateInsert(rows, seq, device_id, device_type, state, ts) ==
    Append(rows, [id |-> Len(rows) + 1, device_id |-> device_id,
                  device_type |-> device_type, state |-> state,
                  last_updated |-> ts])

\* Mutant: the conflicting row also takes the new device_type.
UpdateDeviceStateRetype(rows, seq, device_id, device_type, state, ts) ==
    IF HasDevice(rows, device_id)
    THEN [i \in 1..Len(rows) |->
            IF rows[i].device_id = device_id
            THEN [rows[i] EXCEPT !.device_type = device_type, !.state = state,
                                 !.last_updated = ts]
            ELSE rows[i]]
    ELSE Append(rows, [id |-> seq + 1, device_id |-> device_id,
                       device_type |-> device_type, state |-> state,
                       last_updated |-> ts])

\* update_device_state: INSERT ... ON CONFLICT(device_id) DO UPDATE SET state, last_updated.
UpdateDeviceStateRows(rows, seq, device_id, device_type, state, ts) ==
    IF HasDevice(rows, device_id)
    THEN [i \in 1..Len(rows) |->
            IF rows[i].device_id = device_id
            THEN [rows[i] EXCEPT !.state = state, !.last_updated = ts]
            ELSE rows[i]]
    ELSE Append(rows, [id |-> seq + 1, device_id |-> device_id,
                       device_type |-> device_type, state |-> state,
                       last_updated |-> ts])

\* get_device_state: SELECT state ... WHERE device_id = ?; fetchone.
GetDeviceState(rows, device_id) ==
    IF HasDevice(rows, device_id)
    THEN LET i == CHOOSE k \in 1..Len(rows) :
                     /\ rows[k].device_id = device_id
                     /\ \A j \in 1..(k - 1) : rows[j].device_id # device_id
         IN rows[i].state
    ELSE None

\* ORDER BY id DESC on a table held in insertion order.
RECURSIVE SortByIdDesc(_)
SortByIdDesc(rows) ==
    IF rows = <<>> THEN <<>>
    ELSE LET m == CHOOSE k \in 1..Len(rows) :
                      \A j \in 1..Len(rows) : rows[j].id <= rows[k].id
             rest == [j \in 1..(Len(rows) - 1) |-> IF j < m THEN rows[j] ELSE rows[j + 1]]
         IN <<rows[m]>> \o SortByIdDesc(rest)

\* Mutant: ORDER BY id without DESC.
GetRecentReadingsAscending(rows, limit) ==
    LET n == Min(limit, Len(rows))
    IN [i \in 1..n |-> <<rows[i].timestamp, rows[i].temperature, rows[i].humidity>>]

\* get_recent_readings: SELECT timestamp, temperature, humidity ... ORDER BY id DESC LIMIT ?
GetRecentReadings(rows, limit) ==
    LET sorted == SortByIdDesc(rows)
        n == Min(limit, Len(sorted))
    IN [i \in 1..n |-> <<sorted[i].timestamp, sorted[i].temperature, sorted[i].humidity>>]

\* datetime.now() in store_reading, update_device_state and the publishers.
StoreTs == storeCalls + 1
UpdateTs == updateCalls + 1
PublishTs == cycle

\* ----------------------------------------------------------- publishing
\* The message publish_sensor_data hands to client.publish.
PublishSensorData(t, h) ==
    [topic |-> TOPIC_TEMP,
     payload |-> [temperature |-> Round1(t), humidity |-> Round1(h), timestamp |-> PublishTs]]

\* The message control_device hands to client.publish.
ControlDevice(device_type, device_id, state) ==
    [topic |-> DeviceTopic(device_type, device_id), payload |-> [state |-> state]]

\* Mutant: the alert carries the temperature rounded like the telemetry.
SendAlertRounded(t, h) ==
    [topic |-> TOPIC_ALERT,
     payload |-> [alert_type |-> "high_temperature", temperature |-> Round1(t),
                  humidity |-> h, threshold |-> TEMP_THRESHOLD, timestamp |-> PublishTs]]

\* The message send_alert hands to publish.single.
SendAlert(t, h) ==
    [topic |-> TOPIC_ALERT,
     payload |-> [alert_type |-> "high_temperature", temperature |-> t, humidity |-> h,
                  threshold |-> TEMP_THRESHOLD, timestamp |-> PublishTs]]

\* One call of a publishing operation: ok is the boolean it returns (False
\* when the transport raised inside its try block).
Call(op, ok, msg) == [op |-> op, ok |-> ok, topic |-> msg.topic, payload |-> msg.payload]

\* client.subscribe(TOPIC_x + "/#") for the three device topics: a topic
\* matches when one of the three is a prefix of it at a segment boundary.
IsPrefix(p, t) == Len(p) <= Len(t) /\ SubSeq(t, 1, Len(p)) = p

\* Mutant: the subscriptions are to the three topics themselves, without "/#".
SubscribedNoWildcard(t) == t \in {TOPIC_LIGHTS, TOPIC_THERMOSTAT, TOPIC_LOCK}

Subscribed(t) ==
    \E p \in {TOPIC_LIGHTS, TOPIC_THERMOSTAT, TOPIC_LOCK} :
        IsPrefix(p, t) /\ (Len(t) = Len(p) \/ t[Len(p) + 1] = Slash)

\* ----------------------------------------------------------------- main
\* Mutant: the comparison is not strict.
AlertTriggeredNonStrict(t) == t >= TEMP_THRESHOLD

\* alert_triggered = temperature > TEMP_THRESHOLD
AlertTriggered(t) == t > TEMP_THRESHOLD

\* Mutant: the target is not capped at 22.
TargetTempUncapped(t) == t - 200

\* target_temp = min(temperature - 2, 22)
TargetTemp(t) == Min(t - 200, 2200)

NoPayload == [json |-> "none", fields |-> {}, state |-> None]
NoCall == [op |-> "none", arg |-> <<>>, rows |-> <<>>, state |-> None, again |-> FALSE]

Init ==
    /\ pc = "connect"
    /\ stopReason = "none"
    /\ loopRunning = FALSE
    /\ connected = FALSE
    /\ openConns = 0
    /\ subscribed = FALSE
    /\ inflight = 0
    /\ cycle = 0
    /\ temperature = 0
    /\ humidity = 0
    /\ alert_triggered = FALSE
    /\ cycleLog = <<>>
    /\ sensor_readings = <<>>
    /\ readingSeq = 0
    /\ device_states = <<>>
    /\ deviceSeq = 0
    /\ storeCalls = 0
    /\ updateCalls = 0
    /\ handled = 0
    /\ lastMsg = [topic |-> <<>>, payload |-> NoPayload, outcome |-> "none"]
    /\ lastOwn = FALSE
    /\ lastCarried = [d \in {"living_room", "default"} |-> None]
    /\ lastStored = [d \in {"living_room", "default"} |-> None]
    /\ qres = NoCall

\* Mutant: main does not test what connect() returned.
MainConnectUnchecked ==
    /\ pc = "connect"
    /\ \E ok \in BOOLEAN :
         /\ connected' = ok
         /\ loopRunning' = ok
         /\ stopReason' = IF ok THEN "none" ELSE "connect_failed"
    /\ pc' = "sample"
    /\ UNCHANGED <<cycle, temperature, humidity, alert_triggered, cycleLog,
                   subscribed, inflight, readVars, devVars, msgVars, qres, openConns>>

\* mqtt_controller.connect() and main's test of its result.
MainConnect ==
    /\ pc = "connect"
    /\ \E ok \in BOOLEAN :
         /\ connected' = ok
         /\ loopRunning' = ok
         /\ pc' = IF ok THEN "sample" ELSE "returned"
         /\ stopReason' = IF ok THEN "none" ELSE "connect_failed"
    /\ UNCHANGED <<cycle, temperature, humidity, alert_triggered, cycleLog,
                   subscribed, inflight, readVars, devVars, msgVars, qres, openConns>>

\* Loop top: read the sensor and evaluate the threshold.
ReadSensor ==
    /\ pc = "sample"
    /\ cycle < MaxCycles
    /\ \E t \in Temps, h \in Hums :
         /\ temperature' = t
         /\ humidity' = h
         /\ alert_triggered' = AlertTriggered(t)
    /\ cycle' = cycle + 1
    /\ cycleLog' = <<>>
    /\ pc' = "store"
    /\ UNCHANGED <<stopReason, loopRunning, subscribed, inflight, readVars, devVars,
                   msgVars, qres, connected, openConns>>

\* main() leaves the loop: `finally` stops the network loop and the function
\* returns, which ends its locals (and the cycle in progress).
LeaveLoop(reason) ==
    /\ pc' = "stopped"
    /\ stopReason' = reason
    /\ loopRunning' = FALSE
    /\ temperature' = 0
    /\ humidity' = 0
    /\ alert_triggered' = FALSE
    /\ cycleLog' = <<>>

\* Mutant: the alert is dispatched before the telemetry publish.
AfterStoreAlertFirst == IF alert_triggered THEN "alert" ELSE "publish"

\* Where main goes after store_reading returned.
AfterStore == "publish"

\* The open connections after a write raised: sqlite3.connect itself raised
\* (no connection was opened), or execute/commit raised and conn.close(),
\* which stands after them with no try/finally, was skipped.
Unclosed(opened) == IF opened THEN openConns + 1 ELSE openConns

\* database.store_reading(temperature, humidity, alert_triggered): either the
\* row is committed, or sqlite3 raises; main has no handler around the call,
\* so the exception reaches `except Exception` of the loop and then `finally`.
StoreReading ==
    /\ pc = "store"
    /\ \E ok \in BOOLEAN :
         /\ storeCalls' = storeCalls + 1
         /\ IF ok
            THEN /\ sensor_readings' = StoreReadingRows(sensor_readings, readingSeq,
                                          temperature, humidity, alert_triggered, StoreTs)
                 /\ readingSeq' = readingSeq + 1
                 /\ cycleLog' = Append(cycleLog, [op |-> "store_reading", ok |-> TRUE])
                 /\ pc' = AfterStore
                 /\ UNCHANGED <<stopReason, loopRunning, temperature, humidity,
                                alert_triggered, openConns>>
            ELSE /\ UNCHANGED <<sensor_readings, readingSeq>>
                 /\ \E opened \in BOOLEAN : openConns' = Unclosed(opened)
                 /\ LeaveLoop("error")
    /\ UNCHANGED <<cycle, subscribed, inflight, devVars, msgVars, qres, connected>>

\* Mutant: the alert path is taken without testing alert_triggered.
AfterPublishAlways == "alert"

\* Where main goes after the telemetry publish.
AfterPublish == IF alert_triggered THEN "alert" ELSE "sleep"

\* Mutant: publish_sensor_data has no try/except, the transport's exception
\* reaches `except Exception` of the loop.
PublishTelemetryRaises ==
    /\ pc = "publish"
    /\ \E ok \in BOOLEAN :
         IF ok
         THEN /\ cycleLog' = Append(cycleLog,
                     Call("publish_sensor_data", ok, PublishSensorData(temperature, humidity)))
              /\ pc' = AfterPublish
              /\ UNCHANGED <<stopReason, temperature, humidity, alert_triggered, loopRunning>>
         ELSE LeaveLoop("error")
    /\ UNCHANGED <<cycle, subscribed, inflight, readVars, devVars, msgVars, qres,
                   connected, openConns>>

\* mqtt_controller.publish_sensor_data(temperature, humidity)
PublishTelemetry ==
    /\ pc = "publish"
    /\ \E ok \in BOOLEAN :
         cycleLog' = Append(cycleLog,
                        Call("publish_sensor_data", ok, PublishSensorData(temperature, humidity)))
    /\ pc' = AfterPublish
    /\ UNCHANGED <<stopReason, cycle, temperature, humidity, alert_triggered,
                   loopRunning, subscribed, inflight, readVars, devVars, msgVars, qres, connected, openConns>>

\* send_alert(temperature, humidity), then the inner threshold test.
MainSendAlert ==
    /\ pc = "alert"
    /\ \E ok \in BOOLEAN :
         cycleLog' = Append(cycleLog, Call("send_alert", ok, SendAlert(temperature, humidity)))
    /\ pc' = IF temperature > TEMP_THRESHOLD THEN "control" ELSE "sleep"
    /\ UNCHANGED <<stopReason, cycle, temperature, humidity, alert_triggered,
                   loopRunning, subscribed, inflight, readVars, devVars, msgVars, qres, connected, openConns>>

\* mqtt_controller.control_device("thermostat", "living_room", "on")
MainControlDevice ==
    /\ pc = "control"
    /\ \E ok \in BOOLEAN :
         LET msg == ControlDevice("thermostat", "living_room", "on") IN
         /\ cycleLog' = Append(cycleLog, Call("control_device", ok, msg))
         /\ inflight' = IF ok /\ subscribed /\ Subscribed(msg.topic)
                         THEN inflight + 1 ELSE inflight
    /\ pc' = "target"
    /\ UNCHANGED <<stopReason, cycle, temperature, humidity, alert_triggered,
                   loopRunning, subscribed, readVars, devVars, msgVars, qres, connected, openConns>>

\* mqtt_controller.publish_sensor_data(target_temp, humidity)
PublishTarget ==
    /\ pc = "target"
    /\ \E ok \in BOOLEAN :
         cycleLog' = Append(cycleLog,
                        Call("publish_sensor_data", ok,
                             PublishSensorData(TargetTemp(temperature), humidity)))
    /\ pc' = "sleep"
    /\ UNCHANGED <<stopReason, cycle, temperature, humidity, alert_triggered,
                   loopRunning, subscribed, inflight, readVars, devVars, msgVars, qres, connected, openConns>>

\* time.sleep(CHECK_INTERVAL) returns: the cycle is over, back to the loop top.
Sleep ==
    /\ pc = "sleep"
    /\ pc' = "sample"
    /\ cycleLog' = <<>>
    /\ UNCHANGED <<stopReason, cycle, temperature, humidity, alert_triggered,
                   loopRunning, subscribed, inflight, readVars, devVars, msgVars, qres, connected, openConns>>

\* KeyboardInterrupt inside the try block: except KeyboardInterrupt, finally.
Interrupt ==
    /\ pc \in LoopPcs
    /\ LeaveLoop("interrupt")
    /\ UNCHANGED <<cycle, subscribed, inflight, readVars, devVars, msgVars, qres,
                   connected, openConns>>

\* ------------------------------------------------------ inbound messages
\* A payload after msg.payload.decode() and json.loads: text that is not
\* JSON ("invalid"), a JSON value that is no object ("scalar"), or an object
\* with the given fields; state is the value of its "state" field.
Payload(json, fields, state) == [json |-> json, fields |-> fields, state |-> state]

DeviceIds == {"living_room", "default"}

InboundMsgs ==
    { [topic |-> DeviceTopic("thermostat", "living_room"), payload |-> p] :
         p \in { Payload("object", {"state"}, "on"),
                 Payload("object", {"state"}, "off"),
                 Payload("object", {"state"}, Unbindable),
                 Payload("object", {"temperature"}, None),
                 Payload("invalid", {}, None) } }
    \cup { [topic |-> DeviceTopic("lights", "living_room"),
            payload |-> Payload("object", {"state"}, "off")],
           [topic |-> TOPIC_LIGHTS, payload |-> Payload("object", {"state"}, "on")],
           [topic |-> <<"home", Slash, "devices">>,
            payload |-> Payload("object", {"state"}, "on")] }

\* on_connect: the subscriptions to the device topics.
OnConnect ==
    /\ loopRunning
    /\ ~subscribed
    /\ subscribed' = TRUE
    /\ UNCHANGED <<mainVars, loopRunning, inflight, readVars, devVars, msgVars, qres,
                   connected, openConns>>

\* Mutant: the segment test and the indices are off by one.
DeviceInfoOffByOne(parts) ==
    IF Len(parts) >= 2
    THEN [ok |-> TRUE, device_type |-> parts[2],
          device_id |-> IF Len(parts) > 2 THEN parts[3] ELSE "default"]
    ELSE [ok |-> FALSE, device_type |-> None, device_id |-> None]

\* on_message, lines 187-190: device_type and device_id from the topic.
DeviceInfo(parts) ==
    IF Len(parts) >= 3
    THEN [ok |-> TRUE, device_type |-> parts[3],
          device_id |-> IF Len(parts) > 3 THEN parts[4] ELSE "default"]
    ELSE [ok |-> FALSE, device_type |-> None, device_id |-> None]

\* What the body of on_message's try block does with a message: "ignored"
\* (nothing to do), "stored" (update_device_state committed), or the
\* exception it raises.  dbok: the database accepts the write.
OnMessageBody(msg, dbok) ==
    LET info == DeviceInfo(Split(msg.topic)) IN
    IF msg.payload.json = "invalid" THEN "JSONDecodeError"
    ELSE IF ~info.ok THEN "ignored"
    ELSE IF msg.payload.json = "scalar" THEN "TypeError"
    ELSE IF "state" \notin msg.payload.fields THEN "ignored"
    ELSE IF msg.payload.state = Unbindable THEN "sqlite3.InterfaceError"
    ELSE IF ~dbok THEN "sqlite3.OperationalError"
    ELSE "stored"

\* Mutant: on_message has no except clause for a payload that is not JSON.
OnMessageCatchesNoJSON(exc) ==
    exc \in {"TypeError", "sqlite3.InterfaceError", "sqlite3.OperationalError"}

\* The except clauses of on_message: json.JSONDecodeError, then Exception.
OnMessageCatches(exc) ==
    exc \in {"JSONDecodeError", "TypeError", "sqlite3.InterfaceError", "sqlite3.OperationalError"}

\* Mutant: a committed update_device_state leaves the table as it was (the
\* write of the handler is lost).
UpsertLost(device_id, device_type, state) ==
    UNCHANGED <<device_states, deviceSeq>>

\* The device table and its sequence after a committed update_device_state.
Upsert(device_id, device_type, state) ==
    /\ device_states' = UpdateDeviceStateRows(device_states, deviceSeq,
                            device_id, device_type, state, UpdateTs)
    /\ deviceSeq' = IF HasDevice(device_states, device_id) THEN deviceSeq ELSE deviceSeq + 1

\* on_message for one message: the whole handler.
Handle(msg, dbok) ==
    LET info == DeviceInfo(Split(msg.topic))
        res == OnMessageBody(msg, dbok)
        carries == /\ info.ok
                   /\ msg.payload.json = "object"
                   /\ "state" \in msg.payload.fields
        called == res \in {"stored", "sqlite3.InterfaceError", "sqlite3.OperationalError"}
    IN /\ (~dbok => res = "sqlite3.OperationalError")
       /\ IF res = "stored"
          THEN /\ Upsert(info.device_id, info.device_type, msg.payload.state)
               /\ lastStored' = [lastStored EXCEPT ![info.device_id] = msg.payload.state]
          ELSE UNCHANGED <<device_states, deviceSeq, lastStored>>
       /\ updateCalls' = IF called THEN updateCalls + 1 ELSE updateCalls
       /\ \E opened \in BOOLEAN :
            /\ (res = "sqlite3.InterfaceError" => opened)
            /\ (res \notin {"sqlite3.InterfaceError", "sqlite3.OperationalError"} => ~opened)
            /\ openConns' = Unclosed(opened)
       /\ lastCarried' = IF carries
                         THEN [lastCarried EXCEPT ![info.device_id] = msg.payload.state]
                         ELSE lastCarried
       /\ lastMsg' = [topic |-> msg.topic, payload |-> msg.payload,
                      outcome |-> IF res \in {"stored", "ignored"} THEN res
                                  ELSE IF OnMessageCatches(res) THEN "logged"
                                  ELSE "raised"]
       /\ handled' = handled + 1

\* The network loop runs on_message for a message some other actor
\* published (or for whatever topic the transport hands over).
OnMessage ==
    /\ loopRunning
    /\ subscribed
    /\ handled < MaxMsgs
    /\ \E msg \in InboundMsgs, dbok \in BOOLEAN : Handle(msg, dbok)
    /\ lastOwn' = FALSE
    /\ UNCHANGED <<mainVars, loopRunning, subscribed, inflight, readVars, qres, connected>>

\* json.loads of the payload control_device built with json.dumps.
Loads(rec) == Payload("object", DOMAIN rec, rec.state)

\* The broker delivers back a command that control_device published on a
\* topic the controller itself subscribes to.
OnLoopback ==
    /\ loopRunning
    /\ subscribed
    /\ inflight > 0
    /\ handled < MaxMsgs
    /\ LET cmd == ControlDevice("thermostat", "living_room", "on") IN
       \E dbok \in BOOLEAN :
          Handle([topic |-> cmd.topic, payload |-> Loads(cmd.payload)], dbok)
    /\ inflight' = inflight - 1
    /\ lastOwn' = TRUE
    /\ UNCHANGED <<mainVars, loopRunning, subscribed, readVars, qres, connected>>

\* The runtime finalises the connection objects that no frame refers to any
\* more, which closes them; when it does so is up to the interpreter.
Finalize ==
    /\ openConns > 0
    /\ openConns' = 0
    /\ UNCHANGED <<mainVars, loopRunning, connected, subscribed, inflight,
                   readVars, devVars, msgVars, qres>>

Next ==
    \/ MainConnect
    \/ ReadSensor
    \/ StoreReading
    \/ PublishTelemetry
    \/ MainSendAlert
    \/ MainControlDevice
    \/ PublishTarget
    \/ Sleep
    \/ Interrupt
    \/ OnConnect
    \/ OnMessage
    \/ OnLoopback
    \/ Finalize

Spec == Init /\ [][Next]_vars

\* ------------------------------------------------- the Database as an API
\* A client calling the methods of Database directly, on the tables that
\* setup_database created.
DbCall(op, arg, rows, state) ==
    [op |-> op, arg |-> arg, rows |-> rows, state |-> state,
     again |-> qres.op = op /\ qres.arg = arg]

\* Database.store_reading(temperature, humidity, alert_triggered)
DbStoreReading ==
    /\ Len(sensor_readings) < MaxRows
    /\ \E t \in Temps, h \in Hums :
         /\ sensor_readings' = StoreReadingRows(sensor_readings, readingSeq, t, h,
                                                AlertTriggered(t), StoreTs)
         /\ qres' = DbCall("store_reading", <<t, h>>, <<>>, None)
    /\ readingSeq' = readingSeq + 1
    /\ storeCalls' = storeCalls + 1
    /\ UNCHANGED <<mainVars, loopRunning, subscribed, inflight, devVars, msgVars,
                   connected, openConns>>

\* Database.update_device_state(device_id, device_type, state)
DbUpdateDeviceState ==
    /\ updateCalls < MaxUpdates
    /\ \E d \in DeviceIds, ty \in {"thermostat", "lights"}, st \in {"on", "off"} :
         /\ Upsert(d, ty, st)
         /\ qres' = DbCall("update_device_state", <<d, ty, st>>, <<>>, None)
    /\ updateCalls' = updateCalls + 1
    /\ UNCHANGED <<mainVars, loopRunning, subscribed, inflight, readVars, msgVars,
                   connected, openConns>>

\* Database.get_recent_readings(limit)
DbGetRecentReadings ==
    /\ \E n \in 1..MaxLimit :
         qres' = DbCall("get_recent_readings", <<n>>, GetRecentReadings(sensor_readings, n), None)
    /\ UNCHANGED <<mainVars, loopRunning, subscribed, inflight, readVars, devVars,
                   msgVars, connected, openConns>>

\* Database.get_device_state(device_id)
DbGetDeviceState ==
    /\ \E d \in DeviceIds \cup {"garage"} :
         qres' = DbCall("get_device_state", <<d>>, <<>>, GetDeviceState(device_states, d))
    /\ UNCHANGED <<mainVars, loopRunning, subscribed, inflight, readVars, devVars,
                   msgVars, connected, openConns>>

NextDb ==
    \/ DbStoreReading
    \/ DbUpdateDeviceState
    \/ DbGetRecentReadings
    \/ DbGetDeviceState

SpecDb == Init /\ [][NextDb]_vars

\* ================================================================ claims
\* Positions in cycleLog of the calls of one operation, and of the messages
\* that were published (the call returned True).
Calls(op) == {i \in 1..Len(cycleLog) : cycleLog[i].op = op}
PublishedBy(op) == {i \in Calls(op) : cycleLog[i].ok}
LastReading == sensor_readings[Len(sensor_readings)]
Slashes(topic) == Cardinality({i \in 1..Len(topic) : topic[i] = "/"})
StripTs(rows) ==
    [i \in 1..Len(rows) |-> [id |-> rows[i].id, device_id |-> rows[i].device_id,
                             device_type |-> rows[i].device_type, state |-> rows[i].state]]
RowsOf(rows, device_id) == {i \in 1..Len(rows) : rows[i].device_id = device_id}

\* C1: every appended reading has alert_triggered = 1 exactly when its
\* temperature is strictly above 28.0; a cycle whose sample is at or below
\* the threshold never stands in the alert path nor calls send_alert.
C1_AlertIffAboveThreshold ==
    /\ \A i \in 1..Len(sensor_readings) :
         (sensor_readings[i].alert_triggered = 1) <=> (sensor_readings[i].temperature > 2800)
    /\ (pc \in LoopPcs /\ cycle > 0 /\ temperature <= 2800) =>
         (pc \notin {"alert", "control", "target"} /\ Calls("send_alert") = {})
    /\ (pc \in {"publish", "alert", "control", "target", "sleep"}) =>
         (LastReading.temperature = temperature
            /\ (LastReading.alert_triggered = 1) = alert_triggered)

C1_Witness ==
    /\ pc = "sleep"
    /\ temperature = 2800
    /\ LastReading.temperature = 2800
    /\ LastReading.alert_triggered = 0
    /\ Calls("send_alert") = {}

\* C2 (as claimed): a store_reading call that fails leaves the loop running:
\* main goes on to the telemetry publish of the same cycle and is not stopped.
C2_StoreFailureKeepsLooping ==
    [][(pc = "store" /\ storeCalls' = storeCalls + 1
          /\ Len(sensor_readings') = Len(sensor_readings))
         => (pc' = "publish" /\ loopRunning')]_vars

C4_ExactlyOneTelemetry ==
    (pc = "sleep" /\ temperature <= 2800) =>
        /\ PublishedBy("send_alert") = {}
        /\ Cardinality({i \in PublishedBy("publish_sensor_data") :
                           cycleLog[i].topic = <<"home", "/", "sensors", "/", "temperature">>}) = 1

\* C4 (amended): in a cycle whose sample does not exceed the threshold
\* send_alert is not called and publish_sensor_data is called at most once;
\* a completed cycle called it exactly once, on home/sensors/temperature with
\* the sample rounded to one decimal, so that one telemetry message is
\* published when the call succeeds and none when the transport raises.
C4_OneTelemetryCall ==
    (pc \in LoopPcs \ {"sample"} /\ temperature <= 2800) =>
        /\ Calls("send_alert") = {}
        /\ Calls("control_device") = {}
        /\ Cardinality(Calls("publish_sensor_data")) <= 1
        /\ (pc = "sleep") =>
             /\ Cardinality(Calls("publish_sensor_data")) = 1
             /\ \A i \in Calls("publish_sensor_data") :
                  /\ cycleLog[i].topic = <<"home", "/", "sensors", "/", "temperature">>
                  /\ cycleLog[i].payload.temperature % 10 = 0
                  /\ cycleLog[i].payload.temperature - temperature \in -5..5
                  /\ cycleLog[i].payload.humidity % 10 = 0
                  /\ cycleLog[i].payload.humidity - humidity \in -5..5

C4_Witness ==
    /\ pc = "sleep"
    /\ temperature = 2800
    /\ Cardinality(PublishedBy("publish_sensor_data")) = 1
    /\ Calls("send_alert") = {}

\* C5 (as claimed): get_device_state(id) is the state of the most recently
\* handled well-formed message for id that had a state field, and None for
\* an id no message named.
C5_LastWriteWins ==
    /\ \A d \in DeviceIds : GetDeviceState(device_states, d) = lastCarried[d]
    /\ GetDeviceState(device_states, "garage") = None

\* C5 (amended): get_device_state(id) is the state of the most recently
\* handled well-formed message for id with a state field whose
\* update_device_state call succeeded, and None when there is none.
C5_LastStoredWins ==
    /\ \A d \in DeviceIds : GetDeviceState(device_states, d) = lastStored[d]
    /\ GetDeviceState(device_states, "garage") = None

C5_Witness ==
    /\ lastMsg.topic = <<"home", "/", "devices", "/", "lights", "/", "living_room">>
    /\ lastMsg.outcome = "stored"
    /\ Len(device_states) = 1
    /\ device_states[1].device_type = "thermostat"
    /\ GetDeviceState(device_states, "living_room") = "off"
    /\ GetDeviceState(device_states, "default") = None

\* C6: an update_device_state call that repeats the call before it leaves
\* the device table, last_updated apart, as it was, with exactly one row for
\* the device_id, holding the given state.
C6_UpsertIdempotent ==
    [][(qres'.op = "update_device_state" /\ qres'.again /\ updateCalls' = updateCalls + 1)
         => /\ StripTs(device_states') = StripTs(device_states)
            /\ Cardinality(RowsOf(device_states', qres'.arg[1])) = 1
            /\ \A i \in RowsOf(device_states', qres'.arg[1]) :
                 device_states'[i].state = qres'.arg[3]]_vars

C6_Witness ==
    /\ qres.op = "update_device_state"
    /\ qres.again
    /\ updateCalls = 2
    /\ Len(device_states) = 1

\* C7: get_recent_readings(n) returns the last min(n, number appended)
\* readings, the most recently appended first, and changes neither table.
C7_RecentReadings ==
    [][(qres'.op = "get_recent_readings") =>
         LET n == qres'.arg[1]
             k == Len(sensor_readings)
             m == IF n < k THEN n ELSE k
         IN /\ Len(qres'.rows) = m
            /\ \A i \in 1..m :
                 qres'.rows[i] = <<sensor_readings[k - i + 1].timestamp,
                                   sensor_readings[k - i + 1].temperature,
                                   sensor_readings[k - i + 1].humidity>>
            /\ UNCHANGED <<sensor_readings, readingSeq, device_states, deviceSeq>>]_vars

C7_Witness ==
    /\ qres.op = "get_recent_readings"
    /\ qres.arg[1] = 1
    /\ Len(sensor_readings) = 2
    /\ qres.rows = <<<<2, sensor_readings[2].temperature, sensor_readings[2].humidity>>>>
    /\ sensor_readings[1].temperature # sensor_readings[2].temperature

\* C8: handling a message whose topic has fewer than 3 segments changes
\* neither table, and the handler returns without raising.
C8_MalformedTopicDiscarded ==
    [][(handled' = handled + 1 /\ Slashes(lastMsg'.topic) < 2)
         => /\ UNCHANGED <<device_states, deviceSeq, updateCalls, sensor_readings, readingSeq>>
            /\ lastMsg'.outcome \in {"ignored", "logged"}]_vars

C8_Witness ==
    /\ lastMsg.topic = <<"home", "/", "devices">>
    /\ lastMsg.outcome = "ignored"
    /\ handled > 0

\* C9: when connect() failed, main has returned without a sample taken, a
\* reading appended or a message published.
C9_NoLoopWithoutBroker ==
    (stopReason = "connect_failed") =>
        /\ pc = "returned"
        /\ ~loopRunning
        /\ cycle = 0
        /\ storeCalls = 0
        /\ sensor_readings = <<>>
        /\ cycleLog = <<>>
        /\ inflight = 0

C9_Witness ==
    /\ pc = "returned"
    /\ stopReason = "connect_failed"

\* C10: within a cycle every alert dispatch comes after the telemetry
\* publish, and every telemetry publish after the store_reading call.
C10_AppendPublishAlertOrder ==
    /\ \A i \in Calls("send_alert") :
         \E j \in Calls("publish_sensor_data") : j < i
    /\ \A i \in Calls("publish_sensor_data") :
         \E j \in Calls("store_reading") : j < i
    /\ (pc \in {"publish", "alert", "control", "target", "sleep"}) =>
         (Len(cycleLog) > 0 /\ cycleLog[1].op = "store_reading")

C10_Witness ==
    /\ pc = "sleep"
    /\ Len(cycleLog) >= 3
    /\ cycleLog[1].op = "store_reading"
    /\ cycleLog[2].op = "publish_sensor_data"
    /\ cycleLog[3].op = "send_alert"

\* C11: every step main takes from a publishing position (telemetry, alert,
\* device command, target telemetry) other than a stop signal is the return
\* of the publishing call, with True or with False when the transport
\* raised: main stays in the loop with the network loop running and stands
\* at the step that follows the call in the cycle, whatever was returned.
C11_PublishFailureNonFatal ==
    [][(pc \in {"publish", "alert", "control", "target"} /\ pc' # pc
          /\ stopReason' # "interrupt")
         => /\ loopRunning'
            /\ stopReason' = "none"
            /\ Len(cycleLog') = Len(cycleLog) + 1
            /\ cycleLog'[Len(cycleLog')].op \in
                   {"publish_sensor_data", "control_device", "send_alert"}
            /\ cycleLog'[Len(cycleLog')].ok \in BOOLEAN
            /\ pc' = CASE pc = "publish" -> IF temperature > 2800 THEN "alert" ELSE "sleep"
                       [] pc = "alert" -> "control"
                       [] pc = "control" -> "target"
                       [] pc = "target" -> "sleep"]_vars

C11_Witness ==
    /\ pc = "sleep"
    /\ loopRunning
    /\ temperature = 3023
    /\ Len(cycleLog) = 5
    /\ PublishedBy("publish_sensor_data") = {}
    /\ PublishedBy("send_alert") = {}
    /\ PublishedBy("control_device") = {}

\* C12 (as claimed): the stop signal ends the loop only from the sleep or
\* from the loop top, never from a cycle that has taken its sample and has
\* not yet finished its append, telemetry publish and alert path.
C12_StopOnlyAtCycleBoundary ==
    [][(pc' = "stopped" /\ stopReason' = "interrupt") => pc \in {"sleep", "sample"}]_vars

\* C13 (as claimed): whenever main has left the running loop, by the stop
\* signal or by an unexpected error, the network loop is stopped, the
\* client's connection to the broker is released, and no connection opened
\* by store_reading or update_device_state is still open.
C13_ReleasedWhenStopped ==
    (pc = "stopped") => (~loopRunning /\ ~connected /\ openConns = 0)

\* C14: in every reachable state no two rows of device_states have the same
\* device_id.
C14_UniqueDeviceId ==
    \A i, j \in 1..Len(device_states) :
        (device_states[i].device_id = device_states[j].device_id) => i = j

C14_Witness ==
    /\ handled = 2
    /\ lastMsg.outcome = "stored"
    /\ lastMsg.topic = <<"home", "/", "devices", "/", "thermostat", "/", "living_room">>
    /\ Len(device_states) = 1
    /\ device_states[1].device_id = "living_room"
    /\ device_states[1].last_updated = 2

C16_BadPayloadDiscarded ==
    [][(handled' = handled + 1
          /\ (lastMsg'.payload.json # "object" \/ "state" \notin lastMsg'.payload.fields))
         => /\ UNCHANGED <<device_states, deviceSeq, updateCalls, sensor_readings, readingSeq>>
            /\ lastMsg'.outcome \in {"ignored", "logged"}
            /\ loopRunning' = loopRunning
            /\ subscribed' = subscribed]_vars

C16_Witness ==
    /\ handled = 2
    /\ lastMsg.payload.json = "invalid"
    /\ lastMsg.outcome = "logged"
    /\ updateCalls = 1
    /\ Len(device_states) = 1
    /\ device_states[1].state = "on"

C18_AppendOnlyIncreasingIds ==
    [][/\ Len(sensor_readings') \in {Len(sensor_readings), Len(sensor_readings) + 1}
       /\ \A i \in 1..Len(sensor_readings) : sensor_readings'[i] = sensor_readings[i]
       /\ \A i \in (Len(sensor_readings) + 1)..Len(sensor_readings') :
            \A j \in 1..Len(sensor_readings) :
                sensor_readings'[i].id > sensor_readings[j].id]_vars

C18_Witness ==
    /\ Len(sensor_readings) = 2
    /\ sensor_readings[1].id = 1
    /\ sensor_readings[2].id = 2
    /\ sensor_readings[1].temperature = 3023
    /\ sensor_readings[2].temperature = 2800
    /\ handled = 2
    /\ Len(device_states) = 2

\* The segment of a device topic that on_message takes as device_id.
TopicDeviceId(topic) == IF Len(topic) >= 7 THEN topic[7] ELSE "default"

\* C19 (as claimed): no write is lost: every store_reading call of the loop
\* adds its reading to sensor_readings, and every update_device_state call
\* of the handler leaves device_states with the state of its message for the
\* message's device_id.
C19_NoWriteLost ==
    [][/\ (storeCalls' = storeCalls + 1) =>
            Len(sensor_readings') = Len(sensor_readings) + 1
       /\ (updateCalls' = updateCalls + 1) =>
            \E i \in RowsOf(device_states', TopicDeviceId(lastMsg'.topic)) :
                device_states'[i].state = lastMsg'.payload.state]_vars

\* C19 (amended): a write either commits as a whole or leaves its table as
\* it was.  sensor_readings changes only by a step of the loop's
\* store_reading, which appends the row of the current sample and moves the
\* loop on; device_states changes only by a step of the handler whose write
\* committed, which sets the state of the message's device_id and leaves
\* every other row as it was; a handler step never changes sensor_readings
\* nor the position of the loop, and a step of the loop never changes
\* device_states.
C19_WritesAtomicAndOrdered ==
    [][/\ (sensor_readings' # sensor_readings) =>
            /\ pc = "store"
            /\ pc' = "publish"
            /\ handled' = handled
            /\ Len(sensor_readings') = Len(sensor_readings) + 1
            /\ SubSeq(sensor_readings', 1, Len(sensor_readings)) = sensor_readings
            /\ sensor_readings'[Len(sensor_readings')].temperature = temperature
            /\ sensor_readings'[Len(sensor_readings')].humidity = humidity
       /\ (device_states' # device_states) =>
            (handled' = handled + 1 /\ lastMsg'.outcome = "stored")
       /\ (handled' = handled + 1) =>
            /\ pc' = pc
            /\ sensor_readings' = sensor_readings
            /\ IF lastMsg'.outcome = "stored"
               THEN LET d == TopicDeviceId(lastMsg'.topic) IN
                    /\ Cardinality(RowsOf(device_states', d)) = 1
                    /\ \A i \in RowsOf(device_states', d) :
                         device_states'[i].state = lastMsg'.payload.state
                    /\ \A i \in 1..Len(device_states) :
                         device_states[i].device_id # d =>
                             device_states'[i] = device_states[i]
                    /\ Len(device_states') =
                           Len(device_states) + (IF RowsOf(device_states, d) = {} THEN 1 ELSE 0)
               ELSE device_states' = device_states
       /\ (pc' # pc) => device_states' = device_states]_vars

C19_Witness ==
    /\ pc = "alert"
    /\ cycle = 2
    /\ Len(sensor_readings) = 2
    /\ handled = 2
    /\ lastMsg.outcome = "stored"
    /\ Len(device_states) = 1
    /\ device_states[1].state = "off"
    /\ device_states[1].last_updated = 2
    /\ inflight = 1

====
